---- MODULE Spec2Model ----
(***************************************************************************)
(* The LS-8 style virtual CPU of cpu.py: 8 registers, 256 cells of RAM, a  *)
(* program counter, a flags byte and the fetch-decode-execute loop of      *)
(* CPU.run.  Python integers are unbounded and Python lists accept the     *)
(* negative indices -len..-1; both are modelled as the interpreter behaves.*)
(***************************************************************************)
EXTENDS Integers, Sequences, FiniteSets, TLC

(* ---- opcodes, cpu.py lines 5-43 ---- *)
ADD == 160
SUB == 161
MUL == 162
DIV == 163
MOD == 164
INC == 101
DEC == 102
CMP == 167
AND == 168
NOT == 105
OR == 170
XOR == 171
SHL == 172
SHR == 173
CALL == 80
RET == 17
JMP == 84
JEQ == 85
JNE == 86
NOP == 0
HLT == 1
LDI == 130
LD == 131
PUSH == 69
POP == 70
PRN == 71

(* ---- sizes fixed by CPU.__init__ ---- *)
NumRegisters == 8
RamSize == 256
SP == 7
InitialSP == 244

(* ---- bounds of the model ---- *)
\* longest body (in instructions) of a generated program
MaxBody == 2
\* cycles of the run loop that are explored
MaxSteps == 8

VARIABLES register, ram, pc, flag, running, status, output, program, steps, hist

vars == <<register, ram, pc, flag, running, status, output, program, steps, hist>>

(* ---- Python list indexing: indices -n..n-1 are valid, negative ones wrap ---- *)
IdxOK(i, n) == i \in (0 - n)..(n - 1)

RamOK(address) == IdxOK(address, RamSize)

RegOK(i) == IdxOK(i, NumRegisters)

\* registers and memory are Python lists, modelled as sequences: cell i is element i+1
RegIdx(i) == (i % NumRegisters) + 1

ram_read(mem, address) == mem[(address % RamSize) + 1]

ram_write(mem, address, value) == [mem EXCEPT ![(address % RamSize) + 1] = value]

(* ---- integer helpers for Python's unbounded two's-complement operators ---- *)
RECURSIVE Pow2(_)
Pow2(n) == IF n <= 0 THEN 1 ELSE 2 * Pow2(n - 1)

RECURSIVE BitAnd(_, _)
BitAnd(x, y) ==
  IF x = 0 \/ y = 0 THEN 0
  ELSE IF x = -1 THEN y
  ELSE IF y = -1 THEN x
  ELSE ((x % 2) * (y % 2)) + 2 * BitAnd(x \div 2, y \div 2)

RECURSIVE BitOr(_, _)
BitOr(x, y) ==
  IF x = 0 THEN y
  ELSE IF y = 0 THEN x
  ELSE IF x = -1 \/ y = -1 THEN -1
  ELSE (IF (x % 2) + (y % 2) > 0 THEN 1 ELSE 0) + 2 * BitOr(x \div 2, y \div 2)

RECURSIVE BitXor(_, _)
BitXor(x, y) ==
  IF x = 0 THEN y
  ELSE IF y = 0 THEN x
  ELSE IF x = -1 THEN (0 - y) - 1
  ELSE IF y = -1 THEN (0 - x) - 1
  ELSE (((x % 2) + (y % 2)) % 2) + 2 * BitXor(x \div 2, y \div 2)

\* Python's %: the result takes the sign of the divisor
PyMod(x, y) == IF y > 0 THEN x % y ELSE 0 - ((0 - x) % (0 - y))

(* ---- decode, CPU.run lines 251-253 ---- *)
InstLen(ir) == (ir \div 64) + 1

IsALU(ir) == (ir \div 32) % 2 = 1

SetsPc(ir) == (ir \div 16) % 2 = 1

(* ---- the keys of branch_table, lines 58-78 ---- *)
BranchTable ==
  {LDI, PRN, MUL, ADD, CMP, AND, OR, XOR, NOT, SHL, SHR, MOD,
   PUSH, POP, CALL, RET, JMP, JEQ, JNE}

\* where CPU.run sends an opcode: lines 258-269 and CPU.alu lines 104-107
Route(ir) ==
  IF IsALU(ir) THEN (IF ir \in BranchTable THEN "alu" ELSE "unsupported")
  ELSE IF ir \in BranchTable THEN "branch"
  ELSE IF ir = HLT THEN "halt"
  ELSE "invalid"

(* ---- what each ALU handler computes, lines 109-156 ---- *)
alu_ADD_as_or(x, y) == BitOr(x, y)

alu_ADD(x, y) == x + y

alu_MUL(x, y) == x * y

alu_AND(x, y) == BitAnd(x, y)

alu_OR(x, y) == BitOr(x, y)

alu_XOR(x, y) == BitXor(x, y)

alu_NOT(x) == (0 - x) - 1

alu_SHL(x, y) == x * Pow2(y)

alu_SHR(x, y) == x \div Pow2(y)

alu_MOD(x, y) == PyMod(x, y)

DivisorIsZero_negative(y) == y < 0

\* MOD's guard, line 143
DivisorIsZero(y) == y = 0

CmpFlag_swapped(x, y) == IF x = y THEN 1 ELSE IF x > y THEN 4 ELSE 2

\* the flag CMP writes, lines 151-156
CmpFlag(x, y) == IF x = y THEN 1 ELSE IF x > y THEN 2 ELSE 4

Equal_any_bit(f) == f # 0

\* the test of jeq and jne, lines 193 and 204
Equal(f) == BitAnd(f, 1) # 0

(* ---- programs handed to CPU.load ---- *)
\* the pairs of values the generated programs load into R0 and R1
Operands == {<<0, 1>>, <<1, 1>>, <<9, 2>>, <<9, 0>>, <<255, 0>>, <<255, 1>>}

Prelude(x, y) == <<LDI, 0, x, LDI, 1, y>>

Catalog ==
  { <<op, 0, 1>> : op \in {ADD, MUL, MOD, CMP, AND, OR, XOR, SHL, SHR, SUB, LD} }
  \cup { <<op, 0>> : op \in {NOT, INC, PRN, PUSH, POP, CALL, JMP, JEQ, JNE} }
  \cup { <<CMP, 1, 0>>, <<PRN, 8>>, <<RET>>, <<NOP>> }

RECURSIVE Bodies(_)
Bodies(n) ==
  IF n = 0 THEN {<<>>}
  ELSE {<<>>} \cup { i \o rest : i \in Catalog, rest \in Bodies(n - 1) }

\* LDI R0,8; LDI R1,9; ADD R0,R1; PRN R0; HLT
AddScenario == <<LDI, 0, 8, LDI, 1, 9, ADD, 0, 1, PRN, 0, HLT>>

\* LDI r,v; PRN r; HLT
LdiPrn(r, v) == <<LDI, r, v, PRN, r, HLT>>

\* LDI R0,12; PUSH R0; two bytes the PUSH cycle steps over; RET at 7; HLT at 12
PushRetScenario == <<LDI, 0, 12, PUSH, 0, NOP, 0, RET, NOP, NOP, NOP, NOP, HLT>>

\* LDI R0,p; JMP R0; zeros; HLT at address p
HaltAt(p) == [i \in 1..(p + 1) |-> IF i <= 5 THEN <<LDI, 0, p, JMP, 0>>[i]
                                  ELSE IF i = p + 1 THEN HLT ELSE NOP]

Programs ==
  {AddScenario, PushRetScenario}
  \cup { Prelude(v[1], v[2]) \o body \o <<HLT>> : v \in Operands, body \in Bodies(MaxBody) }
  \cup { LdiPrn(r, v) : r \in 0..(NumRegisters - 1), v \in {0, 1, 17, 255} }
  \cup { HaltAt(p) : p \in {128, 253, 254, 255} }

(* ---- CPU.__init__, lines 48-56 ---- *)
Init ==
  /\ register = [i \in 1..NumRegisters |-> IF i = RegIdx(SP) THEN InitialSP ELSE 0]
  /\ ram = [i \in 1..RamSize |-> 0]
  /\ pc = 0
  /\ flag = 0
  /\ running = TRUE
  /\ status = "Constructed"
  /\ output = <<>>
  /\ program = <<>>
  /\ steps = 0
  /\ hist = <<>>

(* ---- CPU.load, lines 87-98: the bytes go to addresses 0, 1, ... ---- *)
load ==
  /\ status = "Constructed"
  /\ \E prog \in Programs :
       /\ program' = prog
       /\ ram' = [i \in 1..RamSize |-> IF i <= Len(prog) THEN prog[i] ELSE ram[i]]
  /\ status' = "Running"
  /\ UNCHANGED <<register, pc, flag, running, output, steps, hist>>

(* ---- one cycle of CPU.run: fetch, lines 249-256 ---- *)
InLoop == status = "Running" /\ running /\ steps < MaxSteps

Fetchable == RamOK(pc) /\ RamOK(pc + 1) /\ RamOK(pc + 2)

IR == ram_read(ram, pc)

register_a == ram_read(ram, pc + 1)

register_b == ram_read(ram, pc + 2)

\* lines 271-272
Advance(p) == IF SetsPc(IR) THEN p ELSE p + InstLen(IR)

\* the state a cycle started from; hist keeps it for the last two cycles,
\* the older one without its copy of the memory
Snapshot ==
  [pc |-> pc, ir |-> IR, a |-> register_a, b |-> register_b,
   register |-> register, ram |-> ram, flag |-> flag, output |-> output]

Older(h) ==
  [pc |-> h.pc, ir |-> h.ir, a |-> h.a, b |-> h.b,
   register |-> h.register, flag |-> h.flag, output |-> h.output]

Commit(reg, mem, p, fl, out, run, st) ==
  /\ register' = reg
  /\ ram' = mem
  /\ pc' = p
  /\ flag' = fl
  /\ output' = out
  /\ running' = run
  /\ status' = st
  /\ program' = program
  /\ steps' = steps + 1
  /\ hist' = <<Snapshot>> \o (IF hist = <<>> THEN <<>> ELSE <<Older(hist[1])>>)

\* the handler returned: the loop goes on to lines 271-272
Done(reg, mem, p, fl, out) == Commit(reg, mem, Advance(p), fl, out, running, "Running")

\* an exception leaves run() with whatever the handler had already written
Raise(kind, reg, mem, p) == Commit(reg, mem, p, flag, output, running, kind)

\* ram_read of line 249, 255 or 256 indexes outside the list
fetch_error ==
  /\ InLoop
  /\ ~Fetchable
  /\ status' = "IndexError"
  /\ steps' = steps + 1
  /\ UNCHANGED <<register, ram, pc, flag, running, output, program, hist>>

Alu(op) == InLoop /\ Fetchable /\ IR = op /\ Route(IR) = "alu"

Branch(op) == InLoop /\ Fetchable /\ IR = op /\ Route(IR) = "branch"

RegA == register[RegIdx(register_a)]

RegB == register[RegIdx(register_b)]

SetA_writes_b(v) == [register EXCEPT ![RegIdx(register_b)] = v]

SetA(v) == [register EXCEPT ![RegIdx(register_a)] = v]

(* ---- ALU handlers, reached through CPU.alu ---- *)
cpu_ADD ==
  /\ Alu(ADD)
  /\ IF RegOK(register_a) /\ RegOK(register_b)
     THEN Done(SetA(alu_ADD(RegA, RegB)), ram, pc, flag, output)
     ELSE Raise("IndexError", register, ram, pc)

cpu_MUL ==
  /\ Alu(MUL)
  /\ IF RegOK(register_a) /\ RegOK(register_b)
     THEN Done(SetA(alu_MUL(RegA, RegB)), ram, pc, flag, output)
     ELSE Raise("IndexError", register, ram, pc)

cpu_AND ==
  /\ Alu(AND)
  /\ IF RegOK(register_a) /\ RegOK(register_b)
     THEN Done(SetA(alu_AND(RegA, RegB)), ram, pc, flag, output)
     ELSE Raise("IndexError", register, ram, pc)

cpu_OR ==
  /\ Alu(OR)
  /\ IF RegOK(register_a) /\ RegOK(register_b)
     THEN Done(SetA(alu_OR(RegA, RegB)), ram, pc, flag, output)
     ELSE Raise("IndexError", register, ram, pc)

cpu_XOR ==
  /\ Alu(XOR)
  /\ IF RegOK(register_a) /\ RegOK(register_b)
     THEN Done(SetA(alu_XOR(RegA, RegB)), ram, pc, flag, output)
     ELSE Raise("IndexError", register, ram, pc)

cpu_NOT ==
  /\ Alu(NOT)
  /\ IF RegOK(register_a)
     THEN Done(SetA(alu_NOT(RegA)), ram, pc, flag, output)
     ELSE Raise("IndexError", register, ram, pc)

\* a negative shift count raises ValueError
cpu_SHL ==
  /\ Alu(SHL)
  /\ IF ~(RegOK(register_a) /\ RegOK(register_b))
     THEN Raise("IndexError", register, ram, pc)
     ELSE IF RegB < 0
     THEN Raise("ValueError", register, ram, pc)
     ELSE Done(SetA(alu_SHL(RegA, RegB)), ram, pc, flag, output)

cpu_SHR ==
  /\ Alu(SHR)
  /\ IF ~(RegOK(register_a) /\ RegOK(register_b))
     THEN Raise("IndexError", register, ram, pc)
     ELSE IF RegB < 0
     THEN Raise("ValueError", register, ram, pc)
     ELSE Done(SetA(alu_SHR(RegA, RegB)), ram, pc, flag, output)

\* lines 141-147: print and sys.exit() on a zero divisor
cpu_MOD ==
  /\ Alu(MOD)
  /\ IF ~RegOK(register_b)
     THEN Raise("IndexError", register, ram, pc)
     ELSE IF DivisorIsZero(RegB)
     THEN Commit(register, ram, pc, flag,
                 Append(output, [kind |-> "Unable to divide by 0", val |-> 0]),
                 running, "Exit")
     ELSE IF ~RegOK(register_a)
     THEN Raise("IndexError", register, ram, pc)
     ELSE IF RegB = 0
     THEN Raise("ZeroDivisionError", register, ram, pc)
     ELSE Done(SetA(alu_MOD(RegA, RegB)), ram, pc, flag, output)

cpu_CMP ==
  /\ Alu(CMP)
  /\ IF RegOK(register_a) /\ RegOK(register_b)
     THEN Done(register, ram, pc, CmpFlag(RegA, RegB), output)
     ELSE Raise("IndexError", register, ram, pc)

\* CPU.alu line 107: an ALU-class opcode with no entry in branch_table
alu_unsupported ==
  /\ InLoop /\ Fetchable
  /\ Route(IR) = "unsupported"
  /\ Raise("Exception", register, ram, pc)

(* ---- handlers called with no argument, line 262 ---- *)
\* lines 159-164
cpu_LDI ==
  /\ Branch(LDI)
  /\ IF RegOK(register_a)
     THEN Done(SetA(register_b), ram, pc, flag, output)
     ELSE Raise("IndexError", register, ram, pc)

cpu_PRN_prints_index ==
  /\ Branch(PRN)
  /\ IF RegOK(register_a)
     THEN Done(register, ram, pc, flag, Append(output, [kind |-> "PRN", val |-> register_a]))
     ELSE Raise("IndexError", register, ram, pc)

\* lines 166-169
cpu_PRN ==
  /\ Branch(PRN)
  /\ IF RegOK(register_a)
     THEN Done(register, ram, pc, flag, Append(output, [kind |-> "PRN", val |-> RegA]))
     ELSE Raise("IndexError", register, ram, pc)

\* lines 171-177: the handler adds 2 to pc itself and writes the stack slot twice,
\* the second time from the register named by the byte after the moved pc
push ==
  /\ Branch(PUSH)
  /\ LET reg1 == [register EXCEPT ![RegIdx(SP)] = register[RegIdx(SP)] - 1]
         sp   == reg1[RegIdx(SP)]
         mem1 == ram_write(ram, sp, reg1[RegIdx(register_a)])
         pc1  == pc + 2
         r2   == ram_read(mem1, pc1 + 1)
         mem2 == ram_write(mem1, sp, reg1[RegIdx(r2)])
     IN  IF ~RegOK(register_a) \/ ~RamOK(sp)
         THEN Raise("IndexError", reg1, ram, pc)
         ELSE IF ~RamOK(pc1 + 1) \/ ~RegOK(r2)
         THEN Raise("IndexError", reg1, mem1, pc1)
         ELSE Done(reg1, mem2, pc1, flag, output)

\* lines 179-183: the handler adds 2 to pc itself
pop ==
  /\ Branch(POP)
  /\ LET sp   == register[RegIdx(SP)]
         reg1 == SetA(ram_read(ram, sp))
         reg2 == [reg1 EXCEPT ![RegIdx(SP)] = reg1[RegIdx(SP)] + 1]
     IN  IF ~RamOK(sp) \/ ~RegOK(register_a)
         THEN Raise("IndexError", register, ram, pc)
         ELSE Done(reg2, ram, pc + 2, flag, output)

\* lines 185-188
jmp ==
  /\ Branch(JMP)
  /\ IF RegOK(register_a)
     THEN Done(register, ram, RegA, flag, output)
     ELSE Raise("IndexError", register, ram, pc)

jeq_clears_flag ==
  /\ Branch(JEQ)
  /\ IF Equal(flag)
     THEN IF RegOK(register_a)
          THEN Done(register, ram, RegA, 0, output)
          ELSE Raise("IndexError", register, ram, pc)
     ELSE Done(register, ram, pc + 2, 0, output)

\* lines 190-199
jeq ==
  /\ Branch(JEQ)
  /\ IF Equal(flag)
     THEN IF RegOK(register_a)
          THEN Done(register, ram, RegA, flag, output)
          ELSE Raise("IndexError", register, ram, pc)
     ELSE Done(register, ram, pc + 2, flag, output)

\* lines 201-209
jne ==
  /\ Branch(JNE)
  /\ IF ~Equal(flag)
     THEN IF RegOK(register_a)
          THEN Done(register, ram, RegA, flag, output)
          ELSE Raise("IndexError", register, ram, pc)
     ELSE Done(register, ram, pc + 2, flag, output)

\* lines 211-217: call(self, reg_number, value) is invoked as branch_table[ir](),
\* so Python raises TypeError before the body runs
call ==
  /\ Branch(CALL)
  /\ Raise("TypeError", register, ram, pc)

ret_increments_first ==
  /\ Branch(RET)
  /\ LET sp == register[RegIdx(SP)] + 1
     IN  IF RamOK(sp)
         THEN Done([register EXCEPT ![RegIdx(SP)] = sp], ram, ram_read(ram, sp), flag, output)
         ELSE Raise("IndexError", register, ram, pc)

\* lines 219-223
ret ==
  /\ Branch(RET)
  /\ LET sp == register[RegIdx(SP)]
     IN  IF RamOK(sp)
         THEN Done([register EXCEPT ![RegIdx(SP)] = register[RegIdx(SP)] + 1], ram,
                   ram_read(ram, sp), flag, output)
         ELSE Raise("IndexError", register, ram, pc)

\* lines 264-265, then lines 271-272, then the while test fails
halt ==
  /\ InLoop /\ Fetchable
  /\ Route(IR) = "halt"
  /\ Commit(register, ram, Advance(pc), flag, output, FALSE, "Halted")

invalid_clears_running ==
  /\ InLoop /\ Fetchable
  /\ Route(IR) = "invalid"
  /\ Commit(register, ram, pc, flag,
            Append(output, [kind |-> "Invalid instructions", val |-> IR]),
            FALSE, "InvalidInstruction")

\* lines 267-269: print and break
invalid ==
  /\ InLoop /\ Fetchable
  /\ Route(IR) = "invalid"
  /\ Commit(register, ram, pc, flag,
            Append(output, [kind |-> "Invalid instructions", val |-> IR]),
            running, "InvalidInstruction")

Next ==
  \/ load
  \/ fetch_error
  \/ cpu_ADD
  \/ cpu_MUL
  \/ cpu_AND
  \/ cpu_OR
  \/ cpu_XOR
  \/ cpu_NOT
  \/ cpu_SHL
  \/ cpu_SHR
  \/ cpu_MOD
  \/ cpu_CMP
  \/ alu_unsupported
  \/ cpu_LDI
  \/ cpu_PRN
  \/ push
  \/ pop
  \/ jmp
  \/ jeq
  \/ jne
  \/ call
  \/ ret
  \/ halt
  \/ invalid

Spec == Init /\ [][Next]_vars

TypeOK ==
  /\ status \in {"Constructed", "Running", "Halted", "InvalidInstruction", "Exit",
                 "Exception", "TypeError", "IndexError", "ValueError", "ZeroDivisionError"}
  /\ running \in BOOLEAN
  /\ Len(hist) <= 2

(***************************************************************************)
(* Properties                                                              *)
(***************************************************************************)
\* the cycle that ran last: the state it started from
Ran(op) == hist # <<>> /\ hist[1].ir = op

PreA == hist[1].register[RegIdx(hist[1].a)]

PreB == hist[1].register[RegIdx(hist[1].b)]

PreOperandsOK == RegOK(hist[1].a) /\ RegOK(hist[1].b)

Printed(v) == [kind |-> "PRN", val |-> v]

\* C1: the program LDI R0,8; LDI R1,9; ADD R0,R1; PRN R0; HLT runs five cycles
\* without a fault, prints exactly one value, 17, and ends Halted with the
\* running flag cleared.
C1_AddScenarioPrints17 ==
  program = AddScenario =>
    /\ status \in {"Running", "Halted"}
    /\ steps <= 5
    /\ (steps < 5 => status = "Running" /\ running)
    /\ (steps < 4 => output = <<>>)
    /\ (steps >= 4 => output = <<Printed(17)>>)
    /\ (steps = 5 => status = "Halted" /\ ~running)

C1_Witness ==
  /\ program = AddScenario
  /\ status = "Halted"
  /\ ~running
  /\ output = <<Printed(17)>>

\* C2: a cycle that runs an opcode with bit 4 clear and ends without a fault
\* leaves pc at its old value plus the decoded length (byte >> 6) + 1; for
\* PUSH and POP that is 2.
C2_PcAdvancesByLength ==
  (/\ hist # <<>>
   /\ (hist[1].ir \div 16) % 2 = 0
   /\ status \in {"Running", "Halted"})
  => pc = hist[1].pc + ((hist[1].ir \div 64) + 1)

\* C3: once control has passed the pair PUSH r; POP r that starts at address p
\* (pc = p + 4), register r and SP hold what they held before the PUSH and the
\* memory differs from its contents before the PUSH at most in the slot SP-1.
C3_PushPopRoundTrip ==
  \A r \in 0..(NumRegisters - 1) :
    (/\ Ran(PUSH)
     /\ hist[1].a = r
     /\ RamOK(hist[1].pc + 3)
     /\ ram_read(hist[1].ram, hist[1].pc + 2) = POP
     /\ ram_read(hist[1].ram, hist[1].pc + 3) = r
     /\ status = "Running"
     /\ pc = hist[1].pc + 4)
    => /\ register[RegIdx(r)] = hist[1].register[RegIdx(r)]
       /\ register[RegIdx(SP)] = hist[1].register[RegIdx(SP)]
       /\ \A addr \in 0..(RamSize - 1) :
            addr # (hist[1].register[RegIdx(SP)] - 1) % RamSize
              => ram_read(ram, addr) = ram_read(hist[1].ram, addr)

\* C4: CALL r at address p keeps the CPU running, sets pc to register r, leaves
\* SP one lower with the return address p+2 stored there; a RET run right after
\* it sets pc to p+2 and puts SP back.
C4_CallThenRet ==
  /\ (Ran(CALL) /\ RegOK(hist[1].a))
       => /\ status = "Running"
          /\ pc = PreA
          /\ register[RegIdx(SP)] = hist[1].register[RegIdx(SP)] - 1
          /\ RamOK(register[RegIdx(SP)])
          /\ ram_read(ram, register[RegIdx(SP)]) = hist[1].pc + 2
  /\ (Ran(RET) /\ Len(hist) = 2 /\ hist[2].ir = CALL)
       => /\ pc = hist[2].pc + 2
          /\ register[RegIdx(SP)] = hist[2].register[RegIdx(SP)]

\* C5: after JEQ r at address p the pc is the value of register r when flag bit 0
\* was set and p+2 when it was clear; after JNE r it is the value of register r
\* when bit 0 was clear and p+2 when it was set. Nothing is added afterwards.
C5_ConditionalJumps ==
  /\ (Ran(JEQ) /\ RegOK(hist[1].a))
       => pc = (IF hist[1].flag % 2 = 1 THEN PreA ELSE hist[1].pc + 2)
  /\ (Ran(JNE) /\ RegOK(hist[1].a))
       => pc = (IF hist[1].flag % 2 = 0 THEN PreA ELSE hist[1].pc + 2)

\* JEQ taken on a flag that a CMP set, to a target other than p+2
C5_Witness ==
  /\ Ran(JEQ)
  /\ hist[1].flag = 1
  /\ pc = PreA
  /\ pc # hist[1].pc + 2
  /\ status = "Running"

\* C6: after CMP the flags byte is exactly 1 (equal), 2 (greater) or 4 (less),
\* decided by the two register values alone; what it held before is gone.
C6_CmpSetsOneFlag ==
  (Ran(CMP) /\ PreOperandsOK)
  => /\ flag \in {1, 2, 4}
     /\ (flag = 1 <=> PreA = PreB)
     /\ (flag = 2 <=> PreA > PreB)
     /\ (flag = 4 <=> PreA < PreB)

\* CMP run when the flags already held another comparison's bit
C6_Witness ==
  /\ Ran(CMP)
  /\ hist[1].flag = 4
  /\ flag = 2
  /\ PreA > PreB

\* C7: ADD, MUL, AND, OR, XOR, SHL and SHR on operands in 0..255 leave
\* (a OP b) mod 256 in the destination register.
C7_AluResultsMasked ==
  (/\ hist # <<>>
   /\ hist[1].ir \in {ADD, MUL, AND, OR, XOR, SHL, SHR}
   /\ PreOperandsOK
   /\ PreA \in 0..255
   /\ PreB \in 0..255)
  => register[RegIdx(hist[1].a)] =
       (CASE hist[1].ir = ADD -> PreA + PreB
          [] hist[1].ir = MUL -> PreA * PreB
          [] hist[1].ir = AND -> BitAnd(PreA, PreB)
          [] hist[1].ir = OR  -> BitOr(PreA, PreB)
          [] hist[1].ir = XOR -> BitXor(PreA, PreB)
          [] hist[1].ir = SHL -> PreA * Pow2(PreB)
          [] hist[1].ir = SHR -> PreA \div Pow2(PreB)) % 256

DivideByZeroReport == [kind |-> "Unable to divide by 0", val |-> 0]

\* C8: MOD with a zero divisor reports "Unable to divide by 0" and ends the run:
\* registers, memory, flags and pc stay as they were, the report is the last
\* output, and no cycle runs after it.
C8_ModByZeroStops ==
  /\ (Ran(MOD) /\ RegOK(hist[1].b) /\ PreB = 0)
       => /\ status = "Exit"
          /\ register = hist[1].register
          /\ ram = hist[1].ram
          /\ flag = hist[1].flag
          /\ pc = hist[1].pc
          /\ output = Append(hist[1].output, DivideByZeroReport)
  /\ status = "Exit" => (Ran(MOD) /\ PreB = 0)

\* a zero divisor met after a PRN, with a non-zero destination register
C8_Witness ==
  /\ status = "Exit"
  /\ Ran(MOD)
  /\ PreA # 0
  /\ output = <<Printed(PreA), DivideByZeroReport>>

\* C9: fetching a byte that is neither in the dispatch table nor HLT ends the
\* run in the invalid-opcode state, with a report that carries the pc and the
\* byte, and with registers, memory, flags and pc unchanged.
C9_InvalidOpcodeReported ==
  (/\ hist # <<>>
   /\ hist[1].ir \in 0..255
   /\ hist[1].ir \notin BranchTable
   /\ hist[1].ir # HLT)
  => /\ status = "InvalidInstruction"
     /\ output = Append(hist[1].output,
                        [kind |-> "Invalid instructions", pc |-> hist[1].pc, val |-> hist[1].ir])
     /\ register = hist[1].register
     /\ ram = hist[1].ram
     /\ flag = hist[1].flag
     /\ pc = hist[1].pc

SupportedOpcodes ==
  {NOP, HLT, LDI, PRN, PUSH, POP, CALL, RET, JMP, JEQ, JNE,
   ADD, SUB, MUL, DIV, MOD, CMP, AND, OR, XOR, NOT, SHL, SHR, INC, DEC}

\* C10: a cycle that runs an opcode of the supported set with in-range operands
\* never ends in the invalid-opcode state or in the unsupported-operation
\* exception.
C10_SupportedOpcodesDispatched ==
  (/\ hist # <<>>
   /\ hist[1].ir \in SupportedOpcodes
   /\ PreOperandsOK)
  => status \notin {"InvalidInstruction", "Exception"}

\* C11: NOP at address p changes no register, memory cell or flag, prints
\* nothing and leaves the CPU running with pc = p+1.
C11_NopOnlyAdvances ==
  Ran(NOP)
  => /\ status = "Running"
     /\ running
     /\ pc = hist[1].pc + 1
     /\ register = hist[1].register
     /\ ram = hist[1].ram
     /\ flag = hist[1].flag
     /\ output = hist[1].output

\* C12: at every pc in 0..255 whose byte is HLT the cycle clears the running
\* flag without a fault and changes nothing else; once Halted, registers,
\* memory, flags and output never change.
C12_HaltAtAnyAddress ==
  [][/\ (/\ status = "Running"
         /\ running
         /\ pc \in 0..(RamSize - 1)
         /\ ram_read(ram, pc) = HLT)
        => /\ status' = "Halted"
           /\ ~running'
           /\ UNCHANGED <<register, ram, flag, output>>
     /\ status = "Halted" => UNCHANGED <<register, ram, flag, output, pc, running, status>>]_vars

Faults == {"InvalidInstruction", "Exit", "Exception", "TypeError", "IndexError",
           "ValueError", "ZeroDivisionError"}

LastOutput == output[Len(output)]

\* C13: a run that ended in a fault is told apart from a halted one, and the
\* faults from each other: only the halted CPU has the running flag cleared;
\* an invalid opcode ends the loop with the report "Invalid instructions" naming
\* the byte, a zero divisor exits with the report "Unable to divide by 0", an
\* index out of range ends it with IndexError; a halt prints no report.
C13_FaultsDistinguished ==
  /\ status = "Halted" => (~running /\ Ran(HLT) /\ output = hist[1].output)
  /\ status \in Faults => running
  /\ status = "InvalidInstruction"
       => /\ hist # <<>> /\ hist[1].ir \notin BranchTable /\ hist[1].ir # HLT
          /\ output = Append(hist[1].output,
                             [kind |-> "Invalid instructions", val |-> hist[1].ir])
  /\ status = "Exit"
       => /\ Ran(MOD) /\ PreB = 0
          /\ output = Append(hist[1].output, DivideByZeroReport)
  /\ (hist # <<>> /\ ~IsALU(hist[1].ir) /\ hist[1].ir \notin BranchTable /\ hist[1].ir # HLT)
       => status = "InvalidInstruction"
  /\ (Ran(MOD) /\ RegOK(hist[1].b) /\ PreB = 0) => status = "Exit"
  /\ (Ran(PRN) /\ ~RegOK(hist[1].a)) => status = "IndexError"
  /\ (status # "Constructed" /\ ~RamOK(pc)) => status \in {"Running", "IndexError"}

\* an invalid opcode other than NOP, met after something was printed
C13_Witness ==
  /\ status = "InvalidInstruction"
  /\ Ran(LD)
  /\ running
  /\ Len(output) = 2

\* C14: no cycle fetches through an address outside 0..255 and no handler uses
\* a register index outside 0..7 or a stack address outside 0..255; a run that
\* computes one ends with the out-of-range report (IndexError).
C14_OutOfRangeFaults ==
  /\ hist # <<>> => (hist[1].pc >= 0 /\ hist[1].pc + 2 <= RamSize - 1)
  /\ (hist # <<>> /\ hist[1].ir \in {LDI, PRN, PUSH, POP, JMP}
        /\ hist[1].a \notin 0..(NumRegisters - 1))
       => status = "IndexError"
  /\ (hist # <<>> /\ hist[1].ir \in {POP, RET}
        /\ hist[1].register[RegIdx(SP)] \notin 0..(RamSize - 1))
       => status = "IndexError"

\* C15: LDI r,v followed at once by PRN r prints exactly v, once, and register r
\* holds v when the PRN starts.
C15_LdiThenPrn ==
  (/\ Ran(PRN)
   /\ Len(hist) = 2
   /\ hist[2].ir = LDI
   /\ hist[1].pc = hist[2].pc + 3
   /\ hist[2].a \in 0..(NumRegisters - 1)
   /\ hist[2].b \in 0..255
   /\ hist[1].a = hist[2].a)
  => /\ PreA = hist[2].b
     /\ output = Append(hist[2].output, Printed(hist[2].b))

C15_Witness ==
  /\ Ran(PRN)
  /\ Len(hist) = 2
  /\ hist[2].ir = LDI
  /\ hist[2].a = 7
  /\ hist[1].a = 7
  /\ hist[2].b = 17
  /\ output = <<Printed(17)>>

\* C16: after PUSH r at address p with SP = s, SP is s-1, the cell s-1 holds
\* what register r (named by the byte at p+1) held, and every other cell is
\* unchanged.
C16_PushStoresRegister ==
  (/\ Ran(PUSH)
   /\ hist[1].a \in 0..(NumRegisters - 1)
   /\ hist[1].register[RegIdx(SP)] \in 1..(RamSize - 1)
   /\ status = "Running")
  => /\ register[RegIdx(SP)] = hist[1].register[RegIdx(SP)] - 1
     /\ ram_read(ram, register[RegIdx(SP)]) = PreA
     /\ \A addr \in 0..(RamSize - 1) :
          addr # register[RegIdx(SP)] => ram_read(ram, addr) = ram_read(hist[1].ram, addr)

\* C17: after RET with SP = s the pc is the value stored at address s, with
\* nothing added, SP is s+1, and memory and R0-R6 are unchanged.
C17_RetPopsPc ==
  (Ran(RET) /\ hist[1].register[RegIdx(SP)] \in 0..(RamSize - 1))
  => /\ pc = ram_read(hist[1].ram, hist[1].register[RegIdx(SP)])
     /\ register[RegIdx(SP)] = hist[1].register[RegIdx(SP)] + 1
     /\ ram = hist[1].ram
     /\ \A i \in 0..(NumRegisters - 2) : register[RegIdx(i)] = hist[1].register[RegIdx(i)]

\* RET that takes a pushed, non-zero address from the stack
C17_Witness ==
  /\ Ran(RET)
  /\ program = PushRetScenario
  /\ pc = 12
  /\ register[RegIdx(SP)] = InitialSP
  /\ status = "Running"

AluOpcodes == {ADD, MUL, AND, OR, XOR, NOT, SHL, SHR, MOD, CMP}

\* C18: an ALU instruction changes at most its destination register and the
\* flags: memory and the other registers are unchanged, pc moves only by the
\* decoded length, CMP changes no register and the other ops leave the flags.
C18_AluFrame ==
  (hist # <<>> /\ hist[1].ir \in AluOpcodes)
  => /\ ram = hist[1].ram
     /\ \A i \in 1..NumRegisters :
          i # RegIdx(hist[1].a) => register[i] = hist[1].register[i]
     /\ pc \in {hist[1].pc, hist[1].pc + InstLen(hist[1].ir)}
     /\ (status = "Running" => pc = hist[1].pc + InstLen(hist[1].ir))
     /\ (hist[1].ir = CMP => register = hist[1].register)
     /\ (hist[1].ir # CMP => flag = hist[1].flag)

\* an ALU op that did change its destination, with distinct operand registers
C18_Witness ==
  /\ Ran(ADD)
  /\ status = "Running"
  /\ hist[1].a = 0
  /\ hist[1].b = 1
  /\ register[RegIdx(0)] # hist[1].register[RegIdx(0)]

\* C19: every register and every memory cell always holds an integer in 0..255.
C19_BytesEverywhere ==
  /\ \A i \in 1..NumRegisters : register[i] \in 0..255
  /\ \A i \in 1..RamSize : ram[i] \in 0..255

\* C20: the flags byte is always 0, 1, 2 or 4, and a cycle that runs anything
\* but CMP leaves it as it was.
C20_OnlyCmpWritesFlags ==
  /\ flag \in {0, 1, 2, 4}
  /\ (hist # <<>> /\ hist[1].ir # CMP) => flag = hist[1].flag

\* JEQ run on a flag that a CMP had set
C20_Witness ==
  /\ Ran(JEQ)
  /\ hist[1].flag # 0
  /\ flag = hist[1].flag
  /\ status = "Running"

====
